---- MODULE Spec2Model ----
(***************************************************************************)
(* Model of the two batch scripts of crypto-sql-portfolio:                 *)
(*   src/build_monthly_correlations.py  (the Correlation Builder)          *)
(*   src/build_network_metrics.py       (the Network Metrics Builder)      *)
(* The three PostgreSQL tables are state; every numbered section of a      *)
(* script is one action.  Log-returns are integers, a correlation is kept  *)
(* exactly as <<sign, p, q>> meaning sign*sqrt(p/q) with p/q in lowest     *)
(* terms, and the real-valued metrics are fractions <<n, d>> in lowest     *)
(* terms.                                                                  *)
(***************************************************************************)
EXTENDS Integers, Sequences, FiniteSets, Bags, TLC

VARIABLES
    ohlc_daily,                 \* table read by the Correlation Builder (bag of rows)
    stack_dropna,               \* whether DataFrame.stack() drops NaN rows (pandas < 3: yes)
    corr_pc,                    \* position of build_monthly_correlations.py
    df,                         \* its loaded frame, with the month column
    groups,                     \* months still to be visited by its groupby loop
    records,                    \* its list of per-month corr_long frames
    monthly_corr,               \* its concatenated frame
    monthly_correlations,       \* table written by it, read by the metrics script
    net_pc,                     \* position of build_network_metrics.py
    net_df,                     \* its loaded frame
    net_groups,                 \* months still to be visited by its groupby loop
    net_records,                \* its list of metric rows
    metrics_df,                 \* its final frame
    temporal_network_metrics    \* table written by it

vars == <<ohlc_daily, stack_dropna, corr_pc, df, groups, records, monthly_corr,
          monthly_correlations, net_pc, net_df, net_groups, net_records,
          metrics_df, temporal_network_metrics>>

corrVars == <<df, groups, records, monthly_corr>>
netVars == <<net_pc, net_df, net_groups, net_records, metrics_df,
             temporal_network_metrics>>

(***************************************************************************)
(* Bounds of the model and constants of the program                        *)
(***************************************************************************)
NumMonths == 2          \* calendar months covered by the input
DaysInMonth == 20       \* days per modelled month
MaxExtraRows == 1       \* rows of ohlc_daily beyond the per-asset series
MaxTableRows == 3       \* rows of a monthly_correlations table that the builder did not write

min_days_per_asset == 10
CORR_THRESHOLD == <<1, 2>>

\* A cell holds a number, SQL NULL (tables) or float NaN (frames)
Num(v) == [val |-> v]
NULL == [null |-> TRUE]
NaN == [nan |-> TRUE]

Assets == {"X", "Y", "Z"}
MonthIdx == 1..NumMonths

(***************************************************************************)
(* Arithmetic                                                              *)
(***************************************************************************)
Abs(x) == IF x < 0 THEN -x ELSE x

Sign(x) == IF x < 0 THEN -1 ELSE IF x = 0 THEN 0 ELSE 1

RECURSIVE GCD(_, _)
GCD(a, b) == IF b = 0 THEN a ELSE GCD(b, a % b)

\* the fraction n/d (d > 0) in lowest terms
Frac(n, d) == LET g == GCD(Abs(n), d) IN <<n \div g, d \div g>>

FracAdd(f, g) == Frac(f[1] * g[2] + g[1] * f[2], f[2] * g[2])

FracLeq(f, g) == f[1] * g[2] <= g[1] * f[2]

RECURSIVE SumOver(_, _)
SumOver(S, f) ==
    IF S = {} THEN 0
    ELSE LET x == CHOOSE y \in S : TRUE IN f[x] + SumOver(S \ {x}, f)

RECURSIVE FracSumOver(_, _)
FracSumOver(S, f) ==
    IF S = {} THEN <<0, 1>>
    ELSE LET x == CHOOSE y \in S : TRUE IN FracAdd(f[x], FracSumOver(S \ {x}, f))

SetMax(S) == CHOOSE x \in S : \A y \in S : y <= x

SetMin(S) == CHOOSE x \in S : \A y \in S : x <= y

RECURSIVE SortedSeq(_)
SortedSeq(S) ==
    IF S = {} THEN <<>>
    ELSE LET m == SetMin(S) IN <<m>> \o SortedSeq(S \ {m})

\* the rows of a bag that satisfy a predicate given as a set of rows
BagFilter(B, S) == [r \in (DOMAIN B) \cap S |-> B[r]]

(***************************************************************************)
(* Inputs: the ohlc_daily table                                            *)
(* Each asset has, in each month, one of a few daily series; the table may *)
(* hold MaxExtraRows further rows (a NULL return, a repeated asset/day).   *)
(***************************************************************************)
ProfileDays(p) ==
    CASE p = "up15"    -> 1..15
      [] p = "twice15" -> 1..15
      [] p = "vee15"   -> 1..15
      [] p = "flat15"  -> 1..15
      [] p = "short9"  -> 1..9
      [] p = "few3"    -> 1..3
      [] p = "early10" -> 1..10
      [] p = "late10"  -> 11..20

ProfileValue(p, d) ==
    CASE p = "up15"    -> d
      [] p = "twice15" -> 2 * d + 1
      [] p = "vee15"   -> Abs(d - 8)
      [] p = "flat15"  -> 3
      [] p = "short9"  -> d
      [] p = "few3"    -> d
      [] p = "early10" -> 0 - d
      [] p = "late10"  -> d - 10

\* the series an asset may have in the first month, and in the later months
AssetProfiles ==
    [X |-> {"up15", "early10", "short9"},
     Y |-> {"twice15", "flat15", "late10"},
     Z |-> {"vee15", "few3"}]

LaterProfiles ==
    [X |-> {"up15", "short9"},
     Y |-> {"twice15", "flat15"},
     Z |-> {"vee15"}]

\* the series of asset a over the first "last" months
ProfileChoices(a, last) ==
    {f \in [1..last -> AssetProfiles[a]] : \A m \in 1..last : m > 1 => f[m] \in LaterProfiles[a]}

FirstDay(m) == (m - 1) * DaysInMonth + 1

SeriesRows(m, a, p) ==
    {[asset_address |-> a, day |-> FirstDay(m) + d - 1, log_return |-> Num(ProfileValue(p, d))] :
        d \in ProfileDays(p)}

InputRows(choice, last) ==
    UNION {SeriesRows(m, a, choice[a][m]) : m \in 1..last, a \in Assets}

\* a second X row for day 1, an X row with an absent return for day 10, and a Y row
\* for the third day of the last month
ExtraRowUniverse ==
    {[asset_address |-> "X", day |-> 1, log_return |-> Num(1)],
     [asset_address |-> "X", day |-> 10, log_return |-> NULL],
     [asset_address |-> "Y", day |-> FirstDay(NumMonths) + 2, log_return |-> Num(5)]}

ExtraRowSets == {S \in SUBSET ExtraRowUniverse : Cardinality(S) <= MaxExtraRows}

(***************************************************************************)
(* build_monthly_correlations.py                                           *)
(***************************************************************************)
\* df["day"].dt.to_period("M").dt.to_timestamp(): the first day of the day's month
MonthOf(day) == day - ((day - 1) % DaysInMonth)

\* SELECT ... FROM ohlc_daily WHERE log_return IS NOT NULL, plus the month column
LoadedFrame(table) ==
    LET kept == {r \in DOMAIN table : r.log_return # NULL}
        withMonth(r) == [asset_address |-> r.asset_address, day |-> r.day,
                         log_return |-> r.log_return, month |-> MonthOf(r.day)]
    IN  BagOfAll(withMonth, BagFilter(table, kept))

FrameMonths(frame) == {r.month : r \in DOMAIN frame}

MonthFrame(frame, month) == BagFilter(frame, {r \in DOMAIN frame : r.month = month})

\* DataFrame.pivot raises ValueError when an (index, column) pair occurs twice
PivotRaises(df_month) ==
    \E r \in DOMAIN df_month :
        \/ df_month[r] > 1
        \/ \E s \in DOMAIN df_month :
              s # r /\ s.day = r.day /\ s.asset_address = r.asset_address

\* rows = days, columns = assets, values = log_returns (NaN where no row exists)
Pivot(df_month) ==
    LET index == {r.day : r \in DOMAIN df_month}
        columns == {r.asset_address : r \in DOMAIN df_month}
        column(a) ==
            LET rows == {r \in DOMAIN df_month : r.asset_address = a}
                days == {r.day : r \in rows}
            IN  [d \in index |->
                    IF d \in days THEN (CHOOSE r \in rows : r.day = d).log_return ELSE NaN]
    IN  [a \in columns |-> column(a)]

\* variant: counts the rows of the pivot (len) instead of the non-NaN values
ValidCountsIndexLen(pivot) ==
    [a \in DOMAIN pivot |-> Cardinality(DOMAIN pivot[a])]

\* pivot.count(): non-NaN values per column
ValidCounts(pivot) ==
    [a \in DOMAIN pivot |-> Cardinality({d \in DOMAIN pivot[a] : pivot[a][d] # NaN})]

KeepCols(pivot) ==
    LET valid_counts == ValidCounts(pivot)
    IN  {a \in DOMAIN pivot : valid_counts[a] >= min_days_per_asset}

\* Pearson correlation of two columns over the days where both are present
\* (pandas nancorr, min_periods = 1): NaN when no such day exists or when the
\* divisor sqrt(ssqdm_x * ssqdm_y) is zero
PairCorr(x, y) ==
    LET D == {d \in DOMAIN x : x[d] # NaN /\ y[d] # NaN}
        n == Cardinality(D)
        Sx == SumOver(D, [d \in D |-> x[d].val])
        Sy == SumOver(D, [d \in D |-> y[d].val])
        Sxx == SumOver(D, [d \in D |-> x[d].val * x[d].val])
        Syy == SumOver(D, [d \in D |-> y[d].val * y[d].val])
        Sxy == SumOver(D, [d \in D |-> x[d].val * y[d].val])
        cov == n * Sxy - Sx * Sy
        vx == n * Sxx - Sx * Sx
        vy == n * Syy - Sy * Sy
    IN  IF n < 1 THEN NaN
        ELSE IF vx * vy = 0 THEN NaN
        ELSE Num(<<Sign(cov)>> \o Frac(cov * cov, vx * vy))

\* pivot[keep_cols].corr()
CorrMatrix(pivot, keep_cols) ==
    [i \in keep_cols |-> [j \in keep_cols |-> PairCorr(pivot[i], pivot[j])]]

\* corr_matrix.stack().reset_index(name="corr")
Stack(corr_matrix, dropna) ==
    {[asset_i |-> i, asset_j |-> j, corr |-> corr_matrix[i][j]] :
        <<i, j>> \in {c \in (DOMAIN corr_matrix) \X (DOMAIN corr_matrix) :
                        ~dropna \/ corr_matrix[c[1]][c[2]] # NaN}}

\* variant: the diagonal is kept
RemoveSelfKeepsDiagonal(corr_long) == corr_long

\* corr_long[corr_long["asset_i"] != corr_long["asset_j"]]
RemoveSelf(corr_long) == {r \in corr_long : r.asset_i # r.asset_j}

\* the frame appended to records for one month
CorrLong(pivot, keep_cols, month, dropna) ==
    LET corr_long == RemoveSelf(Stack(CorrMatrix(pivot, keep_cols), dropna))
    IN  {[month |-> month, asset_i |-> r.asset_i, asset_j |-> r.asset_j, corr |-> r.corr] :
            r \in corr_long}

\* section 2: read_sql, to_datetime, month column
LoadReturns ==
    /\ corr_pc = "start"
    /\ df' = LoadedFrame(ohlc_daily)
    /\ groups' = SortedSeq(FrameMonths(LoadedFrame(ohlc_daily)))
    /\ records' = <<>>
    /\ corr_pc' = "loop"
    /\ UNCHANGED <<ohlc_daily, stack_dropna, monthly_corr, monthly_correlations>>
    /\ UNCHANGED netVars

\* section 3: one iteration of "for month, df_month in df.groupby('month')"
CorrMonth ==
    /\ corr_pc = "loop"
    /\ groups # <<>>
    /\ LET month == Head(groups)
           df_month == MonthFrame(df, month)
           pivot == Pivot(df_month)
           keep_cols == KeepCols(pivot)
       IN  IF PivotRaises(df_month)
           THEN /\ corr_pc' = "failed"
                /\ UNCHANGED <<groups, records>>
           ELSE /\ corr_pc' = "loop"
                /\ groups' = Tail(groups)
                /\ records' =
                      IF Cardinality(keep_cols) < 2
                      THEN records
                      ELSE Append(records, CorrLong(pivot, keep_cols, month, stack_dropna))
    /\ UNCHANGED <<ohlc_daily, stack_dropna, df, monthly_corr, monthly_correlations>>
    /\ UNCHANGED netVars

RECURSIVE Concat(_)
Concat(frames) ==
    IF frames = <<>> THEN EmptyBag
    ELSE SetToBag(Head(frames)) (+) Concat(Tail(frames))

\* end of section 3: pd.concat(records), month as a date, fixed column order
ConcatRecords ==
    /\ corr_pc = "loop"
    /\ groups = <<>>
    /\ monthly_corr' = Concat(records)
    /\ corr_pc' = "write"
    /\ UNCHANGED <<ohlc_daily, stack_dropna, df, groups, records, monthly_correlations>>
    /\ UNCHANGED netVars

\* to_csv writes NaN as an empty field and COPY ... FORMAT csv reads it as NULL
EmptyField == [empty |-> TRUE]

CsvField(v) == IF v = NaN THEN EmptyField ELSE v

CopyField(f) == IF f = EmptyField THEN NULL ELSE f

CopiedRow(r) ==
    [month |-> r.month, asset_i |-> r.asset_i, asset_j |-> r.asset_j,
     corr |-> CopyField(CsvField(r.corr))]

\* section 4: DROP TABLE, CREATE TABLE, COPY, commit
WriteCorrelations ==
    /\ corr_pc = "write"
    /\ monthly_correlations' = BagOfAll(CopiedRow, monthly_corr)
    /\ corr_pc' = "done"
    /\ UNCHANGED <<ohlc_daily, stack_dropna, df, groups, records, monthly_corr>>
    /\ UNCHANGED netVars

InitPipeline ==
    /\ \E last \in MonthIdx, extra \in ExtraRowSets :
          \E fx \in ProfileChoices("X", last), fy \in ProfileChoices("Y", last),
             fz \in ProfileChoices("Z", last) :
             ohlc_daily = SetToBag(InputRows([X |-> fx, Y |-> fy, Z |-> fz], last))
                             (+) SetToBag(extra)
    /\ stack_dropna \in BOOLEAN
    /\ corr_pc = "start"
    /\ monthly_correlations = EmptyBag

(***************************************************************************)
(* build_network_metrics.py                                                *)
(***************************************************************************)
\* SELECT ... FROM monthly_correlations WHERE corr IS NOT NULL
LoadedEdges(table) == BagFilter(table, {r \in DOMAIN table : r.corr # NULL})

\* variant: corr >= CORR_THRESHOLD, without np.abs
AboveThresholdSigned(c) ==
    /\ c # NaN
    /\ c # NULL
    /\ c.val[1] > 0
    /\ c.val[2] * CORR_THRESHOLD[2] * CORR_THRESHOLD[2]
          >= c.val[3] * CORR_THRESHOLD[1] * CORR_THRESHOLD[1]

\* np.abs(corr) >= CORR_THRESHOLD; a comparison with NaN is false
AboveThreshold(c) ==
    /\ c # NaN
    /\ c # NULL
    /\ c.val[2] * CORR_THRESHOLD[2] * CORR_THRESHOLD[2]
          >= c.val[3] * CORR_THRESHOLD[1] * CORR_THRESHOLD[1]

\* variant: no threshold filter
EdgeFrameUnfiltered(df_month) == df_month

\* df_month[np.abs(df_month["corr"]) >= CORR_THRESHOLD]
EdgeFrame(df_month) == BagFilter(df_month, {r \in DOMAIN df_month : AboveThreshold(r.corr)})

\* nx.Graph as its adjacency: node -> set of neighbours (a self-loop lists the
\* node itself).  add_edge also stores the weight, which no metric reads
\* (clustering is called with weight=None), so the adjacency is all the model keeps.
EmptyGraph == [n \in {} |-> {}]

\* variant: a directed graph, v becomes a successor of u only
AddEdgeDirected(G, u, v) ==
    [n \in (DOMAIN G) \cup {u, v} |->
        (IF n \in DOMAIN G THEN G[n] ELSE {})
          \cup (IF n = u THEN {v} ELSE {})]

AddEdge(G, u, v) ==
    [n \in (DOMAIN G) \cup {u, v} |->
        (IF n \in DOMAIN G THEN G[n] ELSE {})
          \cup (IF n = u THEN {v} ELSE {})
          \cup (IF n = v THEN {u} ELSE {})]

\* G = nx.Graph(); for _, row in df_edges.iterrows(): G.add_edge(asset_i, asset_j, ...)
RECURSIVE BuildGraph(_, _)
BuildGraph(G, df_edges) ==
    IF DOMAIN df_edges = {} THEN G
    ELSE LET row == CHOOSE r \in DOMAIN df_edges : TRUE
             rest == IF df_edges[row] = 1
                     THEN [r \in (DOMAIN df_edges) \ {row} |-> df_edges[r]]
                     ELSE [df_edges EXCEPT ![row] = @ - 1]
         IN  BuildGraph(AddEdge(G, row.asset_i, row.asset_j), rest)

\* variant: every asset of the month is made a node before the edges are added
MonthGraphAllNodes(df_month) ==
    BuildGraph([n \in {r.asset_i : r \in DOMAIN df_month} \cup {r.asset_j : r \in DOMAIN df_month}
                  |-> {}],
               EdgeFrame(df_month))

\* the graph of one month: threshold filter, then one add_edge per surviving row
MonthGraph(df_month) == BuildGraph(EmptyGraph, EdgeFrame(df_month))

NumberOfNodes(G) == Cardinality(DOMAIN G)

\* G.degree(): a self-loop counts twice
Degree(G, n) == Cardinality(G[n]) + (IF n \in G[n] THEN 1 ELSE 0)

\* G.number_of_edges() == sum of degrees // 2
NumberOfEdges(G) == SumOver(DOMAIN G, [n \in DOMAIN G |-> Degree(G, n)]) \div 2

\* variant: the density of a directed graph, m / (n(n-1))
DensityDirected(G) ==
    LET n == NumberOfNodes(G)
        m == NumberOfEdges(G)
    IN  IF m = 0 \/ n <= 1 THEN <<0, 1>> ELSE Frac(m, n * (n - 1))

\* nx.density: 0 when m == 0 or n <= 1, else 2m / (n(n-1))
Density(G) ==
    LET n == NumberOfNodes(G)
        m == NumberOfEdges(G)
    IN  IF m = 0 \/ n <= 1 THEN <<0, 1>> ELSE Frac(2 * m, n * (n - 1))

AvgDegree(G) ==
    IF DOMAIN G = {} THEN <<0, 1>>
    ELSE Frac(SumOver(DOMAIN G, [n \in DOMAIN G |-> Degree(G, n)]), NumberOfNodes(G))

MaxDegree(G) ==
    IF DOMAIN G = {} THEN 0 ELSE SetMax({Degree(G, n) : n \in DOMAIN G})

\* nx.clustering(G, weight=None) of one node: neighbours exclude the node itself;
\* t counts each triangle twice; 0 when t == 0, else t / (d(d-1))
Clustering(G, v) ==
    LET vs == G[v] \ {v}
        d == Cardinality(vs)
        t == SumOver(vs, [w \in vs |-> Cardinality(vs \cap (G[w] \ {w}))])
    IN  IF t = 0 THEN <<0, 1>> ELSE Frac(t, d * (d - 1))

AvgClustering(G) ==
    IF DOMAIN G = {} THEN <<0, 1>>
    ELSE LET total == FracSumOver(DOMAIN G, [v \in DOMAIN G |-> Clustering(G, v)])
         IN  Frac(total[1], total[2] * NumberOfNodes(G))

\* breadth-first search from a set of seen nodes
RECURSIVE Reach(_, _)
Reach(G, seen) ==
    LET next == seen \cup UNION {G[n] : n \in seen}
    IN  IF next = seen THEN seen ELSE Reach(G, next)

\* nx.connected_components(G)
ConnectedComponents(G) == {Reach(G, {n}) : n \in DOMAIN G}

\* variant: the smallest component
LccSizeSmallest(G) == SetMin({Cardinality(c) : c \in ConnectedComponents(G)})

\* len(max(nx.connected_components(G), key=len))
LccSize(G) == SetMax({Cardinality(c) : c \in ConnectedComponents(G)})

MetricsRow(month, G) ==
    [month |-> month,
     n_assets |-> NumberOfNodes(G),
     n_edges |-> NumberOfEdges(G),
     density |-> Density(G),
     avg_degree |-> AvgDegree(G),
     max_degree |-> MaxDegree(G),
     avg_clustering |-> AvgClustering(G),
     lcc_size |-> LccSize(G)]

\* section 3: read_sql, to_datetime.  The scripts run one after the other.
LoadCorrelations ==
    /\ net_pc = "start"
    /\ corr_pc \in {"done", "failed", "not_run"}
    /\ net_df' = LoadedEdges(monthly_correlations)
    /\ net_groups' = SortedSeq(FrameMonths(LoadedEdges(monthly_correlations)))
    /\ net_records' = <<>>
    /\ net_pc' = "loop"
    /\ UNCHANGED <<ohlc_daily, stack_dropna, corr_pc, monthly_correlations>>
    /\ UNCHANGED corrVars
    /\ UNCHANGED <<metrics_df, temporal_network_metrics>>

\* section 4: one iteration of "for month, df_month in df.groupby('month')"
NetMonth ==
    /\ net_pc = "loop"
    /\ net_groups # <<>>
    /\ LET month == Head(net_groups)
           df_month == MonthFrame(net_df, month)
           df_edges == EdgeFrame(df_month)
           G == MonthGraph(df_month)
       IN  net_records' =
              IF DOMAIN df_edges = {} THEN net_records
              ELSE IF NumberOfNodes(G) = 0 THEN net_records
              ELSE Append(net_records, MetricsRow(month, G))
    /\ net_groups' = Tail(net_groups)
    /\ UNCHANGED <<ohlc_daily, stack_dropna, corr_pc, monthly_correlations>>
    /\ UNCHANGED corrVars
    /\ UNCHANGED <<net_pc, net_df, metrics_df, temporal_network_metrics>>

\* metrics_df.sort_values("month"): stable insertion into a sorted frame
RECURSIVE InsertByMonth(_, _)
InsertByMonth(sorted, row) ==
    IF sorted = <<>> THEN <<row>>
    ELSE IF row.month < Head(sorted).month THEN <<row>> \o sorted
    ELSE <<Head(sorted)>> \o InsertByMonth(Tail(sorted), row)

RECURSIVE SortByMonth(_)
SortByMonth(frame) ==
    IF frame = <<>> THEN <<>>
    ELSE InsertByMonth(SortByMonth(SubSeq(frame, 1, Len(frame) - 1)), frame[Len(frame)])

\* end of section 4: DataFrame(records), sort by month, reset_index
SortMetrics ==
    /\ net_pc = "loop"
    /\ net_groups = <<>>
    /\ metrics_df' = SortByMonth(net_records)
    /\ net_pc' = "write"
    /\ UNCHANGED <<ohlc_daily, stack_dropna, corr_pc, monthly_correlations>>
    /\ UNCHANGED corrVars
    /\ UNCHANGED <<net_df, net_groups, net_records, temporal_network_metrics>>

\* section 5: DROP TABLE, CREATE TABLE, COPY, commit
WriteMetrics ==
    /\ net_pc = "write"
    /\ temporal_network_metrics' = metrics_df
    /\ net_pc' = "done"
    /\ UNCHANGED <<ohlc_daily, stack_dropna, corr_pc, monthly_correlations>>
    /\ UNCHANGED corrVars
    /\ UNCHANGED <<net_df, net_groups, net_records, metrics_df>>

(***************************************************************************)
(* A monthly_correlations table that some other writer left behind: the    *)
(* metrics script is then run on its own.  The table's schema allows any   *)
(* asset pair, repeated rows and a NULL corr.                              *)
(***************************************************************************)
NetPairs == {<<"X", "Y">>, <<"Y", "X">>, <<"Y", "Z">>, <<"Z", "X">>, <<"Z", "Z">>}

\* NULL, 0.3 and -0.5
NetCorrs == {NULL, Num(<<1, 9, 100>>), Num(<<-1, 1, 4>>)}

NetRowUniverse ==
    {[month |-> 1, asset_i |-> pr[1], asset_j |-> pr[2], corr |-> c] :
        pr \in NetPairs, c \in NetCorrs}
    \cup
    {[month |-> DaysInMonth + 1, asset_i |-> "X", asset_j |-> "Y", corr |-> c] :
        c \in {NULL, Num(<<-1, 1, 4>>)}}

\* the bags of exactly k rows
RECURSIVE BagsOfSize(_)
BagsOfSize(k) ==
    IF k = 0 THEN {EmptyBag}
    ELSE UNION {{b (+) SetToBag({r}) : r \in NetRowUniverse} : b \in BagsOfSize(k - 1)}

NetTables == UNION {BagsOfSize(k) : k \in 0..MaxTableRows}

InitNetworkOnly ==
    /\ ohlc_daily = EmptyBag
    /\ stack_dropna = TRUE
    /\ corr_pc = "not_run"
    /\ monthly_correlations \in NetTables

InitLocals ==
    /\ df = EmptyBag
    /\ groups = <<>>
    /\ records = <<>>
    /\ monthly_corr = EmptyBag
    /\ net_pc = "start"
    /\ net_df = EmptyBag
    /\ net_groups = <<>>
    /\ net_records = <<>>
    /\ metrics_df = <<>>
    /\ temporal_network_metrics = <<>>

Init == (InitPipeline \/ InitNetworkOnly) /\ InitLocals

Next ==
    \/ LoadReturns
    \/ CorrMonth
    \/ ConcatRecords
    \/ WriteCorrelations
    \/ LoadCorrelations
    \/ NetMonth
    \/ SortMetrics
    \/ WriteMetrics

Spec == Init /\ [][Next]_vars

(***************************************************************************)
(* Vocabulary of the properties, stated on the tables rather than on the   *)
(* scripts' intermediate values                                            *)
(***************************************************************************)
SeqRange(q) == {q[i] : i \in DOMAIN q}

\* days of month m on which asset a has a non-absent return in ohlc_daily
ValidDays(a, m) ==
    {r.day : r \in {x \in DOMAIN ohlc_daily :
                      x.asset_address = a /\ MonthOf(x.day) = m /\ x.log_return # NULL}}

Qualifying(m) == {a \in Assets : Cardinality(ValidDays(a, m)) >= min_days_per_asset}

InputMonths == {MonthOf(r.day) : r \in DOMAIN ohlc_daily}

\* two rows of ohlc_daily for one (asset, day), whatever their returns
HasDuplicateKey ==
    \E r \in DOMAIN ohlc_daily :
        \/ ohlc_daily[r] > 1
        \/ \E x \in DOMAIN ohlc_daily :
              x # r /\ x.asset_address = r.asset_address /\ x.day = r.day

\* edge rows the Correlation Builder holds in memory or has written
FrameEdges == UNION {records[i] : i \in DOMAIN records} \cup DOMAIN monthly_corr

WrittenEdges == IF corr_pc = "done" THEN DOMAIN monthly_correlations ELSE {}

Reverse(r) == [r EXCEPT !.asset_i = r.asset_j, !.asset_j = r.asset_i]

\* |corr| >= 0.5 for a present corr <<sign, p, q>>: p/q >= 1/4
Survives(r) == r.corr # NULL /\ r.corr # NaN /\ 4 * r.corr.val[2] >= r.corr.val[3]

\* rows of the edge table that survive the threshold in month m
SurvivingRows(m) == {r \in DOMAIN monthly_correlations : r.month = m /\ Survives(r)}

QualifyingMonths == {r.month : r \in {x \in DOMAIN monthly_correlations : Survives(x)}}

PairSet(m) == {{r.asset_i, r.asset_j} : r \in SurvivingRows(m)}

NodeSet(m) == UNION PairSet(m)

PairDegree(m, v) ==
    Cardinality({pr \in PairSet(m) : v \in pr /\ pr # {v}})
      + (IF {v} \in PairSet(m) THEN 2 ELSE 0)

RECURSIVE Within(_, _, _)
Within(m, S, k) ==
    IF k = 0 THEN S
    ELSE Within(m, S \cup {w \in NodeSet(m) : \E v \in S : {v, w} \in PairSet(m)}, k - 1)

ComponentOf(m, u) == Within(m, {u}, Cardinality(NodeSet(m)))

IsConnected(m) == \A u \in NodeSet(m) : ComponentOf(m, u) = NodeSet(m)

AllPairsJoined(m) == \A u, v \in NodeSet(m) : u # v => {u, v} \in PairSet(m)

NoSelfEdge(m) == \A pr \in PairSet(m) : Cardinality(pr) = 2

\* metric rows the Network Metrics Builder holds in memory or has written
MetricRows ==
    SeqRange(net_records) \cup SeqRange(metrics_df) \cup SeqRange(temporal_network_metrics)

DensityFormula(row) ==
    IF row.n_assets >= 2
    THEN row.density = Frac(2 * row.n_edges, row.n_assets * (row.n_assets - 1))
    ELSE row.density = <<0, 1>>

(***************************************************************************)
(* C1: the January scenario                                                *)
(***************************************************************************)
\* January only: X = 1..15, Y = 2*X + 1 (corr 1 with X), Z = |d - 8| (corr 0 with both)
ScenarioInput ==
    ohlc_daily = SetToBag(SeriesRows(1, "X", "up15") \cup SeriesRows(1, "Y", "twice15")
                            \cup SeriesRows(1, "Z", "vee15"))

ScenarioEdges ==
    /\ BagCardinality(monthly_correlations) = 6
    /\ \A r \in DOMAIN monthly_correlations :
          /\ r.month = 1
          /\ r.corr = IF {r.asset_i, r.asset_j} = {"X", "Y"}
                      THEN Num(<<1, 1, 1>>) ELSE Num(<<0, 0, 1>>)

\* C1 as claimed: in the January scenario the Correlation Builder emits 6 edge rows
\* and the metrics row is n_assets 3, n_edges 1, density 1/3, avg_degree 2/3,
\* max_degree 1, avg_clustering 0, lcc_size 2.
C1_ScenarioAsClaimed ==
    (ScenarioInput /\ corr_pc = "done" /\ net_pc = "done") =>
        /\ ScenarioEdges
        /\ temporal_network_metrics =
              <<[month |-> 1, n_assets |-> 3, n_edges |-> 1, density |-> <<1, 3>>,
                 avg_degree |-> <<2, 3>>, max_degree |-> 1, avg_clustering |-> <<0, 1>>,
                 lcc_size |-> 2]>>

\* C1 amended: in the January scenario the Correlation Builder emits 6 edge rows and
\* the metrics row is n_assets 2 (Z is no node), n_edges 1, density 1, avg_degree 1,
\* max_degree 1, avg_clustering 0, lcc_size 2.
C1_ScenarioAmended ==
    (ScenarioInput /\ corr_pc = "done" /\ net_pc = "done") =>
        /\ ScenarioEdges
        /\ temporal_network_metrics =
              <<[month |-> 1, n_assets |-> 2, n_edges |-> 1, density |-> <<1, 1>>,
                 avg_degree |-> <<1, 1>>, max_degree |-> 1, avg_clustering |-> <<0, 1>>,
                 lcc_size |-> 2]>>

C1_Witness == ScenarioInput /\ corr_pc = "done" /\ net_pc = "done"

(***************************************************************************)
(* C2 - C4, C8: the Correlation Builder                                    *)
(***************************************************************************)
\* C2: every emitted correlation edge has asset_i # asset_j, and the reverse edge of
\* the same month is emitted too with the identical correlation value.
C2_EdgesSymmetric ==
    /\ \A r \in FrameEdges : r.asset_i # r.asset_j /\ Reverse(r) \in FrameEdges
    /\ \A r \in WrittenEdges : r.asset_i # r.asset_j /\ Reverse(r) \in WrittenEdges

C2_Witness ==
    /\ corr_pc = "done"
    /\ \E r \in DOMAIN monthly_correlations : r.corr # NULL /\ r.corr.val[1] = -1

\* C3: both endpoints of every edge emitted for month M have at least
\* min_days_per_asset non-absent daily observations inside M, and a month in which
\* fewer than 2 assets have that many emits no edge.
C3_EdgesOnlyBetweenQualifying ==
    LET edges == FrameEdges \cup WrittenEdges IN
    \A m \in {r.month : r \in edges} :
        LET q == Qualifying(m) IN
        /\ Cardinality(q) >= 2
        /\ \A r \in edges : r.month = m => r.asset_i \in q /\ r.asset_j \in q

\* a month where one asset has 15 valid days and another has some but too few gives
\* no edge, while another month of the same run does
C3_Witness ==
    /\ corr_pc = "done"
    /\ monthly_correlations # EmptyBag
    /\ \E m \in InputMonths :
          /\ Cardinality(Qualifying(m)) = 1
          /\ \E a \in Assets \ Qualifying(m) : ValidDays(a, m) # {}
          /\ \A r \in DOMAIN monthly_correlations : r.month # m

\* C4: a month with k >= 2 surviving assets gets exactly one edge for every ordered
\* pair of distinct surviving assets, k*(k-1) edges in all, pairs with an undefined
\* correlation included (with an absent corr).
C4_EveryOrderedPairEmitted ==
    corr_pc = "done" =>
        \A m \in InputMonths :
            LET q == Qualifying(m)
                k == Cardinality(q)
                rows == MonthFrame(monthly_correlations, m)
            IN  k >= 2 =>
                  /\ BagCardinality(rows) = k * (k - 1)
                  /\ \A i, j \in q :
                        i # j => \E r \in DOMAIN rows : r.asset_i = i /\ r.asset_j = j

\* C8: when ohlc_daily holds two rows for one (asset, day) the run does not complete
\* and produces or writes no edge row for any month.
C8_DuplicateFailsRun ==
    (corr_pc # "not_run" /\ HasDuplicateKey) =>
        /\ corr_pc \notin {"write", "done"}
        /\ monthly_corr = EmptyBag
        /\ monthly_correlations = EmptyBag

(***************************************************************************)
(* C5 - C7, C9, C10: the Network Metrics Builder                           *)
(***************************************************************************)
\* C5: the output has exactly one row for each month that has an edge with corr
\* present and |corr| >= corr_threshold, no row for any other month, and its rows
\* are in ascending month order (it is empty when no month qualifies).
C5_OneRowPerQualifyingMonth ==
    net_pc = "done" =>
        /\ {row.month : row \in SeqRange(temporal_network_metrics)} = QualifyingMonths
        /\ Len(temporal_network_metrics) = Cardinality(QualifyingMonths)
        /\ \A i, j \in DOMAIN temporal_network_metrics :
              i < j => temporal_network_metrics[i].month < temporal_network_metrics[j].month

\* a month qualifies through a negative correlation while a row with an absent
\* corr sits in a month that does not qualify
C5_Witness ==
    /\ net_pc = "done"
    /\ temporal_network_metrics # <<>>
    /\ \E r \in DOMAIN monthly_correlations : Survives(r) /\ r.corr.val[1] = -1
    /\ \E r \in DOMAIN monthly_correlations : r.corr = NULL /\ r.month \notin QualifyingMonths

C7_LargestComponent ==
    \A row \in MetricRows :
        /\ row.lcc_size = SetMax({Cardinality(ComponentOf(row.month, u)) : u \in NodeSet(row.month)})
        /\ row.lcc_size <= row.n_assets
        /\ IsConnected(row.month) => row.lcc_size = row.n_assets

\* a disconnected month and a connected month of three nodes in one output
C7_Witness ==
    /\ net_pc = "done"
    /\ \E row \in MetricRows : ~IsConnected(row.month) /\ row.lcc_size = 2 /\ row.n_assets = 3

\* C9: n_edges is the number of distinct unordered pairs {i, j} with a surviving row
\* (i, j) or (j, i); a repeated or reversed row changes neither n_edges nor n_assets
\* nor any degree, and a pair present in one direction only is an edge.
C9_UndirectedSimpleGraph ==
    \A row \in MetricRows :
        LET m == row.month IN
        /\ row.n_edges = Cardinality(PairSet(m))
        /\ row.n_assets = Cardinality(NodeSet(m))
        /\ row.max_degree = SetMax({PairDegree(m, v) : v \in NodeSet(m)})
        /\ row.avg_degree =
              Frac(SumOver(NodeSet(m), [v \in NodeSet(m) |-> PairDegree(m, v)]),
                   Cardinality(NodeSet(m)))

\* a month with a repeated row, a reversed row and a one-directional pair
C9_Witness ==
    /\ net_pc = "done"
    /\ \E row \in MetricRows :
          LET rows == SurvivingRows(row.month) IN
          /\ row.n_edges = 2
          /\ \E r \in rows : monthly_correlations[r] > 1 \/ (r.asset_i # r.asset_j /\ Reverse(r) \in rows)
          /\ \E r \in rows : \A x \in rows : x.asset_i # r.asset_j \/ x.asset_j # r.asset_i

\* C10: on an edge list written by the Correlation Builder every metrics row has
\* n_assets >= 2, n_edges >= 1, max_degree >= 1, avg_degree >= 1, density > 0 and
\* lcc_size >= 2, every node has degree >= 1, and an asset all of whose correlations
\* are below the threshold is not counted in n_assets.
C10_NoIsolatedNode ==
    corr_pc = "done" =>
        \A row \in MetricRows :
            /\ row.n_assets >= 2
            /\ row.n_edges >= 1
            /\ row.max_degree >= 1
            /\ FracLeq(<<1, 1>>, row.avg_degree)
            /\ ~FracLeq(row.density, <<0, 1>>)
            /\ row.lcc_size >= 2
            /\ row.n_assets =
                  Cardinality({a \in Assets : \E r \in SurvivingRows(row.month) :
                                                 a \in {r.asset_i, r.asset_j} /\ r.asset_i # r.asset_j})

\* an asset has edges in the month, all below the threshold, and is not a node
C10_Witness ==
    /\ corr_pc = "done"
    /\ net_pc = "done"
    /\ \E row \in MetricRows :
          /\ row.n_assets = 2
          /\ \E r \in DOMAIN monthly_correlations :
                r.month = row.month /\ r.corr # NULL /\ r.asset_i \notin NodeSet(row.month)

====
